---------------------------- MODULE Spec2Model ----------------------------
(***************************************************************************)
(* billbot: invoice payment lifecycle.                                     *)
(*                                                                         *)
(* The model covers the record store (one DynamoDB table of invoice        *)
(* items), the extraction consumer that creates items, the payment         *)
(* scheduler (urgent pass, batch pass, one payment attempt per selected    *)
(* item), the payment gateway (Stripe payment intents) and the webhook     *)
(* status updater.  Every store operation (query, put_item, update_item)   *)
(* and every gateway call is one atomic step; the steps of concurrently    *)
(* running Lambda invocations interleave freely.                           *)
(***************************************************************************)
EXTENDS Integers, Sequences, FiniteSets, TLC

(***************************************************************************)
(* Bounds of the model.                                                    *)
(***************************************************************************)
\* number of invoice items the extraction consumer writes
MaxInvoices == 2
\* number of scheduler invocations (payment cycles) started
MaxCycles == 2
\* number of webhook deliveries handled
MaxDeliveries == 2
\* number of Lambda invocations, payment cycles and webhook deliveries together
MaxInvocations == 3
\* due dates are the days 0..MaxDate; the window length ranges over 0..MaxDate
MaxDate == 1
\* the largest number of SQS records in one event of the extraction consumer
MaxRecords == 2

\* two scheduler Lambda invocations may overlap; deliveries are handled by one
\* status-updater invocation at a time
Schedulers == {"s1", "s2"}
Dates == 0..MaxDate
Windows == 0..MaxDate

\* an absent attribute / Python None, and a present value
None == <<>>
Some(x) == <<x>>
Val(o) == o[1]

\* an amount text with two decimals, as its count of hundredths: "453.53"
Amounts == {45353}
\* the largest of the amounts the conversion to minor units is checked on
MaxAmount == 30
\* error texts of the gateway (str(e) of a StripeError)
StripeErrors == {"card_declined"}
\* the event types a webhook may carry
EventTypes == {"payment_intent.succeeded", "payment_intent.payment_failed"}
Signatures == {"valid", "invalid", "missing"}

VARIABLES
    table,      \* the DynamoDB table: processed_invoice_uuid -> item
    clock,      \* datetime.utcnow(), a logical timestamp
    today,      \* datetime.now() as a calendar day
    payment_window_days,  \* PAYMENT_WINDOW_DAYS of the deployment
    intents,    \* the payment intents of the gateway, in creation order
    sched,      \* per scheduler invocation: its position and local variables
    cycles,     \* payment cycles started so far
    hook,       \* the status updater: its position and local variables
    deliveries, \* webhook deliveries handled so far
    extractor   \* the extraction consumer: its position and local variables

vars == <<table, clock, today, payment_window_days, intents, sched, cycles,
          hook, deliveries, extractor>>

Uuids == DOMAIN table

EmptyPass == [processed |-> 0, successful |-> 0, failed |-> 0, errors |-> <<>>]

\* queries_failed: every query of the cycle so far raised ClientError
IdleSched ==
    [pc |-> "idle", pass |-> "none", today |-> 0, queue |-> <<>>,
     payment_result |-> None, urgent |-> EmptyPass, batch |-> EmptyPass,
     selected |-> <<>>, attempted |-> <<>>, queries_failed |-> FALSE]

\* store_calls counts the table.query and table.update_item calls of the
\* invocation
IdleHook ==
    [pc |-> "idle", invoice |-> None, response |-> None, store_calls |-> 0]

\* records: the event's SQS records; i: the one the loop is at
IdleExtractor ==
    [pc |-> "idle", records |-> <<>>, i |-> 1, processed_count |-> 0,
     extracted_count |-> 0, response |-> None]

Init ==
    /\ table = <<>>
    /\ clock = 0
    /\ today = 0
    /\ payment_window_days \in Windows
    /\ intents = <<>>
    /\ sched = [s \in Schedulers |-> IdleSched]
    /\ cycles = 0
    /\ hook = IdleHook
    /\ deliveries = 0
    /\ extractor = IdleExtractor

\* the calendar day changes: each pass of a cycle reads datetime.now() anew
DayChanges ==
    /\ today < MaxDate
    /\ today' = today + 1
    /\ UNCHANGED <<table, clock, payment_window_days, intents, sched, cycles,
                   hook, deliveries, extractor>>

(***************************************************************************)
(* Extraction consumer: InvoiceDynamoWriter.write_invoice.                 *)
(***************************************************************************)
\* mutant: a failed extraction is stored as due on receipt for the usual
\* amount
InvoiceItem_due_on_receipt(uuid, s3_key, extraction_successful, due_date, total_amount) ==
    [processed_invoice_uuid |-> uuid,
     s3_original_key |-> s3_key,
     processing_status |-> "RECEIVED",
     extraction_successful |-> extraction_successful,
     due_date |-> IF extraction_successful THEN due_date ELSE Some(0),
     total_amount |-> IF extraction_successful THEN total_amount ELSE Some(45353),
     payment_intent_id |-> None,
     error_message |-> None,
     last_updated |-> None,
     payment_succeeded_at |-> None]

\* the item put for an extraction result; the key of the stored document is
\* kept with the record
InvoiceItem(uuid, s3_key, extraction_successful, due_date, total_amount) ==
    [processed_invoice_uuid |-> uuid,
     s3_original_key |-> s3_key,
     processing_status |-> "RECEIVED",
     extraction_successful |-> extraction_successful,
     due_date |-> IF extraction_successful THEN due_date ELSE None,
     total_amount |-> IF extraction_successful THEN total_amount ELSE None,
     payment_intent_id |-> None,
     error_message |-> None,
     last_updated |-> None,
     payment_succeeded_at |-> None]

\* every call draws a fresh uuid4 and puts the item without a condition
write_invoice(s3_key) ==
    /\ Len(table) < MaxInvoices
    /\ \E ok \in BOOLEAN,
          due \in {None} \cup {Some(d) : d \in Dates},
          amt \in {None} \cup {Some(a) : a \in Amounts} :
          \* a failed extraction carries no fields
          /\ (~ok => (due = None /\ amt = None))
          /\ table' = Append(table,
                 InvoiceItem(Len(table) + 1, s3_key, ok, due, amt))
    /\ UNCHANGED <<clock, today, payment_window_days, intents, sched, cycles, hook,
                   deliveries, extractor>>

\* the keys of the documents extracted so far
S3Keys == {table[u].s3_original_key : u \in DOMAIN table}

\* the key of a document that has not been extracted yet
NewKey == Cardinality(S3Keys) + 1

\* the extraction consumer handles the queue message of a new document
NewMessage == write_invoice(NewKey)

\* the queue delivers the message of an extracted document once more
RedeliveredMessage == \E u \in DOMAIN table : write_invoice(table[u].s3_original_key)

\* the body of an SQS record: the classification, and whether bucket and key
\* are there (and not empty)
Messages ==
    [classification : {"INVOICE", "OTHER"}, bucket : BOOLEAN, key : BOOLEAN]

\* event['Records']
Events == UNION {[1..n -> Messages] : n \in 1..MaxRecords}

\* mutant: an INVOICE message is extracted whether or not it names a document
Extractable_any_invoice(message_body) ==
    message_body.classification = "INVOICE"

\* the messages the loop does not skip
Extractable(message_body) ==
    /\ message_body.classification = "INVOICE"
    /\ message_body.bucket
    /\ message_body.key

\* the extraction consumer's lambda_handler up to its loop
invoice_extractor_lambda_handler ==
    /\ extractor.pc = "idle"
    /\ \E event \in Events :
          /\ Len(table) + Len(event) <= MaxInvoices
          /\ extractor' = [IdleExtractor EXCEPT !.pc = "loop",
                                                !.records = event]
    /\ UNCHANGED <<table, clock, today, payment_window_days, intents, sched,
                   cycles, hook, deliveries>>

\* one iteration of the loop: the record is skipped, or its handling raises
\* (json.loads, get_object, the extraction, put_item with an error other than
\* ClientError), or write_invoice puts the item or fails with ClientError;
\* every path counts the record and goes on to the next
ProcessRecord ==
    /\ extractor.pc = "loop"
    /\ extractor.i <= Len(extractor.records)
    /\ LET message_body == extractor.records[extractor.i]
       IN  \E raises \in BOOLEAN, success \in BOOLEAN, ok \in BOOLEAN,
              due \in {None} \cup {Some(d) : d \in Dates},
              amt \in {None} \cup {Some(a) : a \in Amounts} :
              LET written == Extractable(message_body) /\ ~raises /\ success
              IN  /\ (~ok => (due = None /\ amt = None))
                  /\ table' = IF written
                              THEN Append(table,
                                       InvoiceItem(Len(table) + 1, NewKey, ok,
                                                   due, amt))
                              ELSE table
                  /\ extractor' = [extractor EXCEPT
                         !.i = @ + 1,
                         !.processed_count = @ + 1,
                         !.extracted_count = IF written THEN @ + 1 ELSE @]
    /\ UNCHANGED <<clock, today, payment_window_days, intents, sched, cycles,
                   hook, deliveries>>

\* the end of the loop: the summary
ExtractorReturns ==
    /\ extractor.pc = "loop"
    /\ extractor.i > Len(extractor.records)
    /\ extractor' = [extractor EXCEPT
           !.pc = "idle",
           !.response = Some([statusCode |-> 200,
                              processed_count |-> extractor.processed_count,
                              extracted_count |-> extractor.extracted_count])]
    /\ UNCHANGED <<table, clock, today, payment_window_days, intents, sched,
                   cycles, hook, deliveries>>

\* the values of processing_status
Statuses == {"RECEIVED", "PAYMENT_INITIATED", "PAYMENT_FAILED", "PAID"}

\* InvoiceDynamoWriter.update_processing_status: SET processing_status alone
update_processing_status(processed_invoice_uuid, new_status) ==
    /\ table' = [table EXCEPT
                    ![processed_invoice_uuid].processing_status = new_status]
    /\ UNCHANGED <<clock, today, payment_window_days, intents, sched, cycles, hook,
                   deliveries, extractor>>

\* a caller of the writer sets the status of a record
WriterUpdate ==
    \E u \in DOMAIN table, new_status \in Statuses :
        update_processing_status(u, new_status)

(***************************************************************************)
(* The conversion to minor units: amount_cents = int(float(amount) * 100). *)
(* An amount text with two decimals is represented by its count of         *)
(* hundredths ("453.53" is 45353), a float by the binary digits of its     *)
(* significand, most significant first, and the number of them that follow *)
(* the binary point.                                                       *)
(***************************************************************************)
\* the significand of an IEEE 754 double
Precision == 53

\* the digits a machine word multiplies at once
Chunk == 24

\* 2^i modulo m, for i up to 60
Pow2Mod(i, m) == (((2 ^ (i \div 2)) % m) * ((2 ^ (i - (i \div 2))) % m)) % m

\* the number of binary digits of a natural number
BitLength(k) == CHOOSE l \in 0..30 : k < 2 ^ l /\ (l = 0 \/ 2 ^ (l - 1) <= k)

\* the last len binary digits of a natural number
FixedBits(k, len) == [i \in 1..len |-> (k \div (2 ^ (len - i))) % 2]

\* the binary digits of a natural number, none for 0
IntBits(k) == FixedBits(k, BitLength(k))

RECURSIVE BitsToInt(_)
BitsToInt(bits) ==
    IF Len(bits) = 0 THEN 0
    ELSE IF Len(bits) = 1 THEN bits[1]
    ELSE LET half == Len(bits) \div 2
         IN BitsToInt(SubSeq(bits, 1, half)) * (2 ^ (Len(bits) - half))
            + BitsToInt(SubSeq(bits, half + 1, Len(bits)))

\* the first count binary digits of r / 100 after the binary point, r < 100
FracBits(r, count) ==
    [i \in 1..count |-> ((r * Pow2Mod(i, 200)) % 200) \div 100]

\* what is left of r / 100 after count binary digits
FracRem(r, count) == (r * Pow2Mod(count, 100)) % 100

\* the number of zeros that open the binary digits of r / 100, 0 < r < 100
LeadingZeros(r) == CHOOSE z \in 0..6 : (2 ^ z) * r < 100 /\ (2 ^ (z + 1)) * r >= 100

\* the digits of the next number with as many digits, or one more
Increment(bits) ==
    IF \A i \in DOMAIN bits : bits[i] = 1
    THEN <<1>> \o [i \in DOMAIN bits |-> 0]
    ELSE LET p == CHOOSE i \in DOMAIN bits :
                      bits[i] = 0 /\ \A j \in (i + 1)..Len(bits) : bits[j] = 1
         IN [i \in DOMAIN bits |-> IF i < p THEN bits[i]
                                   ELSE IF i = p THEN 1 ELSE 0]

\* round to nearest, ties to even, at Precision digits; inexact tells that
\* digits beyond the ones given are not all zero
RoundToDouble(bits, frac, inexact) ==
    IF Len(bits) <= Precision THEN [bits |-> bits, frac |-> frac]
    ELSE LET kept == SubSeq(bits, 1, Precision)
             rest == SubSeq(bits, Precision + 1, Len(bits))
             more == inexact \/ \E i \in 2..Len(rest) : rest[i] = 1
             up == rest[1] = 1 /\ (more \/ kept[Precision] = 1)
         IN [bits |-> IF up THEN Increment(kept) ELSE kept,
             frac |-> frac - Len(rest)]

\* float(amount): the double nearest to amount / 100
float(amount) ==
    IF amount = 0 THEN [bits |-> <<>>, frac |-> 0]
    ELSE LET whole == IntBits(amount \div 100)
             r == amount % 100
             frac == IF whole # <<>> THEN Precision + 1 - Len(whole)
                     ELSE LeadingZeros(r) + Precision + 1
             digits == FracBits(r, frac)
         IN RoundToDouble(IF whole # <<>> THEN whole \o digits
                          ELSE SubSeq(digits, LeadingZeros(r) + 1, frac),
                          frac, FracRem(r, frac) # 0)

\* the exact digits of bits * m + carry, a Chunk of digits at a time from the
\* last digit up, for m < 128
RECURSIVE TimesBits(_, _, _)
TimesBits(bits, m, carry) ==
    IF bits = <<>> THEN IntBits(carry)
    ELSE LET len == IF Len(bits) < Chunk THEN Len(bits) ELSE Chunk
             low == SubSeq(bits, Len(bits) - len + 1, Len(bits))
             v == BitsToInt(low) * m + carry
         IN TimesBits(SubSeq(bits, 1, Len(bits) - len), m, v \div (2 ^ len))
            \o FixedBits(v % (2 ^ len), len)

\* x * m in double arithmetic
Times(x, m) == RoundToDouble(TimesBits(x.bits, m, 0), x.frac, FALSE)

\* int(x): the digits before the binary point, for x < 2^30
int(x) ==
    IF x.frac >= Len(x.bits) THEN 0
    ELSE IF x.frac >= 0 THEN BitsToInt(SubSeq(x.bits, 1, Len(x.bits) - x.frac))
    ELSE BitsToInt(x.bits \o [i \in 1..(0 - x.frac) |-> 0])

\* the amount in cents that the gateway is given
amount_cents(amount) == int(Times(float(amount), 100))

\* the conversion of every amount text of the model
AmountCentsOf == [amount \in Amounts \cup (1..MaxAmount) |-> amount_cents(amount)]

(***************************************************************************)
(* Payment gateway: StripePaymentClient.                                   *)
(***************************************************************************)
\* the id the gateway gives the payment intent it creates: a fresh one
NewPaymentIntentId == Len(intents) + 1

\* mutant: the result carries an id that is the same for every intent (the
\* test payment method's id instead of the intent's)
create_test_payment_intent_same_id(processed_invoice_uuid, outcome) ==
    IF outcome = "ok"
    THEN [success |-> TRUE, payment_intent_id |-> Some(1),
          error_message |-> None]
    ELSE [success |-> FALSE, payment_intent_id |-> None,
          error_message |-> Some(outcome)]

\* mutant: a failed create call reports the id of an intent all the same
create_test_payment_intent_id_on_failure(processed_invoice_uuid, outcome) ==
    IF outcome = "ok"
    THEN [success |-> TRUE, payment_intent_id |-> Some(NewPaymentIntentId),
          error_message |-> None]
    ELSE [success |-> FALSE, payment_intent_id |-> Some(NewPaymentIntentId),
          error_message |-> Some(outcome)]

\* PaymentResult of a create call: outcome "ok" when PaymentIntent.create
\* returns, otherwise the text of the StripeError it raised
create_test_payment_intent(processed_invoice_uuid, outcome) ==
    IF outcome = "ok"
    THEN [success |-> TRUE, payment_intent_id |-> Some(NewPaymentIntentId),
          error_message |-> None]
    ELSE [success |-> FALSE, payment_intent_id |-> None,
          error_message |-> Some(outcome)]

\* mutant: the create call sends no record id in the metadata
PaymentIntent_no_metadata(processed_invoice_uuid, amount) ==
    [id |-> NewPaymentIntentId,
     amount |-> AmountCentsOf[amount],
     metadata |-> [processed_invoice_uuid |-> 0],
     acknowledged |-> FALSE]

\* the intent PaymentIntent.create leaves at the gateway: the amount in
\* cents, and metadata that carries the record id; acknowledged: the gateway
\* has had a 2xx answer to the intent's payment_intent.succeeded event
PaymentIntent(processed_invoice_uuid, amount) ==
    [id |-> NewPaymentIntentId,
     amount |-> AmountCentsOf[amount],
     metadata |-> [processed_invoice_uuid |-> processed_invoice_uuid],
     acknowledged |-> FALSE]

(***************************************************************************)
(* Payment scheduler: PaymentScheduler.                                    *)
(***************************************************************************)
\* the items of a set of uuids, ordered by the index's sort key (due_date),
\* then by uuid
RECURSIVE ItemsOf(_)
ItemsOf(S) ==
    IF S = {} THEN <<>>
    ELSE LET m == CHOOSE x \in S : \A y \in S :
                      \/ Val(table[x].due_date) < Val(table[y].due_date)
                      \/ /\ table[x].due_date = table[y].due_date
                         /\ x <= y
         IN  <<table[m]>> \o ItemsOf(S \ {m})

\* StatusAndDueDateIndex: processing_status = status and due_date = due_date
_query_invoices_by_status_and_due_date(status, due_date) ==
    ItemsOf({u \in Uuids : /\ table[u].processing_status = status
                           /\ table[u].due_date = Some(due_date)})

\* StatusAndDueDateIndex: processing_status = status and
\* due_date BETWEEN start_date AND end_date
_query_invoices_by_status_and_due_date_range(status, start_date, end_date) ==
    ItemsOf({u \in Uuids : /\ table[u].processing_status = status
                           /\ table[u].due_date # None
                           /\ start_date <= Val(table[u].due_date)
                           /\ Val(table[u].due_date) <= end_date})

\* mutant: the batch loop skips nothing
SkipInBatch_never(invoice, day) == FALSE

\* the batch loop's "already processed in urgent scan" test
SkipInBatch(invoice, day) == invoice.due_date = Some(day)

\* the items of the batch query that the loop does not skip
RECURSIVE NotSkipped(_, _)
NotSkipped(q, day) ==
    IF q = <<>> THEN <<>>
    ELSE IF SkipInBatch(Head(q), day) THEN NotSkipped(Tail(q), day)
         ELSE <<Head(q)>> \o NotSkipped(Tail(q), day)

\* mutant: the update stores the new status but not the error message
_update_invoice_status_no_reason(item, new_status, payment_intent_id, error_message, now) ==
    [item EXCEPT
        !.processing_status = new_status,
        !.last_updated = Some(now),
        !.payment_intent_id =
            IF payment_intent_id # None THEN payment_intent_id ELSE @]

\* mutant: the update also removes the amount that has been paid for
_update_invoice_status_drops_amount(item, new_status, payment_intent_id, error_message, now) ==
    [item EXCEPT
        !.processing_status = new_status,
        !.last_updated = Some(now),
        !.total_amount = None,
        !.payment_intent_id =
            IF payment_intent_id # None THEN payment_intent_id ELSE @,
        !.error_message =
            IF error_message # None THEN error_message ELSE @]

\* the item _update_invoice_status leaves: an unconditional SET
_update_invoice_status(item, new_status, payment_intent_id, error_message, now) ==
    [item EXCEPT
        !.processing_status = new_status,
        !.last_updated = Some(now),
        !.payment_intent_id =
            IF payment_intent_id # None THEN payment_intent_id ELSE @,
        !.error_message =
            IF error_message # None THEN error_message ELSE @]

\* mutant: a failure is counted but its reason is not kept
Tally_no_error(res, success, error) ==
    [processed |-> res.processed + 1,
     successful |-> res.successful + (IF success THEN 1 ELSE 0),
     failed |-> res.failed + (IF success THEN 0 ELSE 1),
     errors |-> res.errors]

\* the counters of a pass after one _process_single_payment result
Tally(res, success, error) ==
    [processed |-> res.processed + 1,
     successful |-> res.successful + (IF success THEN 1 ELSE 0),
     failed |-> res.failed + (IF success THEN 0 ELSE 1),
     errors |-> IF success THEN res.errors ELSE Append(res.errors, error)]

\* mutant: a failed record ends the pass (the loop breaks on a failure)
Counted_abort(st, success, error, gateway, write) ==
    LET invoice == Head(st.queue)
        st1 == [st EXCEPT
                   !.pc = "loop",
                   !.queue = IF success THEN Tail(st.queue) ELSE <<>>,
                   !.payment_result = None,
                   !.attempted = Append(@,
                       [uuid |-> invoice.processed_invoice_uuid,
                        pass |-> st.pass,
                        gateway |-> gateway, write |-> write])]
    IN  IF st.pass = "urgent"
        THEN [st1 EXCEPT !.urgent = Tally(@, success, error)]
        ELSE [st1 EXCEPT !.batch = Tally(@, success, error)]

\* the scheduler's state after the current invoice's result is counted
Counted(st, success, error, gateway, write) ==
    LET invoice == Head(st.queue)
        st1 == [st EXCEPT
                   !.pc = "loop",
                   !.queue = Tail(st.queue),
                   !.payment_result = None,
                   !.attempted = Append(@,
                       [uuid |-> invoice.processed_invoice_uuid,
                        pass |-> st.pass,
                        gateway |-> gateway, write |-> write])]
    IN  IF st.pass = "urgent"
        THEN [st1 EXCEPT !.urgent = Tally(@, success, error)]
        ELSE [st1 EXCEPT !.batch = Tally(@, success, error)]

UuidsOf(q) == [i \in 1..Len(q) |-> q[i].processed_invoice_uuid]

\* run_payment_cycle up to the urgent query of _process_urgent_payments
run_payment_cycle(s) ==
    /\ sched[s].pc = "idle"
    \* invocations are anonymous: the second one is used only to overlap the first
    /\ (s = "s1" \/ sched["s1"].pc # "idle")
    /\ cycles < MaxCycles
    /\ cycles + deliveries < MaxInvocations
    /\ cycles' = cycles + 1
    /\ \E query_ok \in BOOLEAN :
        LET urgent_invoices ==
                IF query_ok
                THEN _query_invoices_by_status_and_due_date("RECEIVED", today)
                ELSE <<>>
        IN  sched' = [sched EXCEPT ![s] =
                [IdleSched EXCEPT
                    !.pc = "loop",
                    !.pass = "urgent",
                    !.today = today,
                    !.queue = urgent_invoices,
                    !.selected = UuidsOf(urgent_invoices),
                    !.queries_failed = ~query_ok]]
    /\ UNCHANGED <<table, clock, today, payment_window_days, intents, hook,
                   deliveries, extractor>>

\* _process_single_payment up to the gateway call: validation, then the
\* create call, whose result is kept for the status update
_process_single_payment(s) ==
    /\ sched[s].pc = "loop"
    /\ sched[s].queue # <<>>
    /\ LET invoice == Head(sched[s].queue)
           uuid == invoice.processed_invoice_uuid
       IN  \/ /\ invoice.total_amount = None
              /\ sched' = [sched EXCEPT ![s] =
                     Counted(@, FALSE, [kind |-> "Missing total_amount",
                                        uuid |-> uuid, text |-> None],
                             "none", "none")]
              /\ UNCHANGED intents
           \/ /\ invoice.total_amount # None
              /\ \E outcome \in {"ok"} \cup StripeErrors :
                   /\ sched' = [sched EXCEPT ![s].pc = "update",
                                   ![s].payment_result =
                                       create_test_payment_intent(uuid, outcome)]
                   /\ intents' = IF outcome = "ok"
                                 THEN Append(intents,
                                             PaymentIntent(uuid, Val(invoice.total_amount)))
                                 ELSE intents
    /\ UNCHANGED <<table, clock, today, payment_window_days, cycles, hook,
                   deliveries, extractor>>

\* the rest of _process_single_payment: the status update (update_item may
\* raise ClientError, which _update_invoice_status swallows) and the result
SchedulerUpdate(s) ==
    /\ sched[s].pc = "update"
    /\ LET st == sched[s]
           invoice == Head(st.queue)
           uuid == invoice.processed_invoice_uuid
           pr == st.payment_result
           err == [kind |-> "Stripe payment failed", uuid |-> uuid,
                   text |-> pr.error_message]
       IN  \E write_ok \in BOOLEAN :
             /\ clock' = IF write_ok THEN clock + 1 ELSE clock
             /\ table' = IF write_ok
                         THEN [table EXCEPT ![uuid] =
                                 _update_invoice_status(@,
                                     IF pr.success THEN "PAYMENT_INITIATED"
                                                   ELSE "PAYMENT_FAILED",
                                     pr.payment_intent_id, pr.error_message,
                                     clock + 1)]
                         ELSE table
             /\ sched' = [sched EXCEPT ![s] =
                    Counted(st, pr.success, err,
                            IF pr.success THEN "ok" ELSE "fail",
                            IF write_ok THEN "ok" ELSE "fail")]
    /\ UNCHANGED <<today, payment_window_days, intents, cycles, hook,
                   deliveries, extractor>>

\* _process_batch_payments up to its loop: the range query, and the skip of
\* the items due today
_process_batch_payments(s) ==
    /\ sched[s].pc = "loop"
    /\ sched[s].pass = "urgent"
    /\ sched[s].queue = <<>>
    /\ \E query_ok \in BOOLEAN :
        LET batch_invoices ==
                IF query_ok
                THEN _query_invoices_by_status_and_due_date_range(
                         "RECEIVED", today, today + payment_window_days)
                ELSE <<>>
            kept == NotSkipped(batch_invoices, today)
        IN  sched' = [sched EXCEPT
                ![s].pass = "batch",
                ![s].today = today,
                ![s].queue = kept,
                ![s].selected = @ \o UuidsOf(kept),
                ![s].queries_failed = (@ /\ ~query_ok)]
    /\ UNCHANGED <<table, clock, today, payment_window_days, intents, cycles,
                   hook, deliveries, extractor>>

\* _process_urgent_payments' except Exception: the query raised something
\* other than ClientError (which alone the query methods catch), and the pass
\* returns zero counts with the exception's text as its one error
UrgentPassRaises(s) ==
    /\ sched[s].pc = "idle"
    /\ (s = "s1" \/ sched["s1"].pc # "idle")
    /\ cycles < MaxCycles
    /\ cycles + deliveries < MaxInvocations
    /\ cycles' = cycles + 1
    /\ sched' = [sched EXCEPT ![s] =
           [IdleSched EXCEPT
               !.pc = "loop",
               !.pass = "urgent",
               !.today = today,
               !.urgent = [processed |-> 0, successful |-> 0, failed |-> 0,
                           errors |-> <<[kind |-> "Exception", uuid |-> 0,
                                         text |-> None]>>],
               !.queries_failed = TRUE]]
    /\ UNCHANGED <<table, clock, today, payment_window_days, intents, hook,
                   deliveries, extractor>>

\* _process_batch_payments' except Exception, likewise
BatchPassRaises(s) ==
    /\ sched[s].pc = "loop"
    /\ sched[s].pass = "urgent"
    /\ sched[s].queue = <<>>
    /\ sched' = [sched EXCEPT
           ![s].pass = "batch",
           ![s].today = today,
           ![s].queue = <<>>,
           ![s].batch = [processed |-> 0, successful |-> 0, failed |-> 0,
                         errors |-> <<[kind |-> "Exception", uuid |-> 0,
                                       text |-> None]>>]]
    /\ UNCHANGED <<table, clock, today, payment_window_days, intents, cycles,
                   hook, deliveries, extractor>>

\* the end of run_payment_cycle: the summary
Summary(st) ==
    [total_processed |-> st.urgent.processed + st.batch.processed,
     total_successful |-> st.urgent.successful + st.batch.successful,
     total_failed |-> st.urgent.failed + st.batch.failed]

\* both passes are done: run_payment_cycle is about to return
Returning(s) ==
    /\ sched[s].pc = "loop"
    /\ sched[s].pass = "batch"
    /\ sched[s].queue = <<>>

\* what run_payment_cycle returns
Results(s) ==
    [urgent_payments |-> sched[s].urgent,
     batch_payments |-> sched[s].batch,
     summary |-> Summary(sched[s])]

\* the results of a cycle whose queries both succeeded and found no record
EmptyResults ==
    [urgent_payments |-> EmptyPass,
     batch_payments |-> EmptyPass,
     summary |-> [total_processed |-> 0, total_successful |-> 0,
                  total_failed |-> 0]]

\* the scheduler Lambda's lambda_handler: its response for the results of
\* run_payment_cycle, which raises nothing
payment_scheduler_lambda_handler(results) ==
    [statusCode |-> 200,
     message |-> "Payment cycle completed successfully",
     results |-> results]

\* run_payment_cycle returns its results; the invocation ends
CycleReturns(s) ==
    /\ Returning(s)
    /\ sched' = [sched EXCEPT ![s] = IdleSched]
    /\ UNCHANGED <<table, clock, today, payment_window_days, intents, cycles,
                   hook, deliveries, extractor>>

(***************************************************************************)
(* Webhook status updater: lambda_functions/status_updater/app.py.         *)
(***************************************************************************)
\* a payment intent id that is not one of this deployment's intents
ForeignIntent == 0

\* the webhook events the gateway may deliver: for any of its intents, any
\* number of times, and for intents this system never created
WebhookEvents ==
    [signature : Signatures, type : EventTypes,
     id : (1..Len(intents)) \cup {ForeignIntent}]

\* mutant: every response is sent with status 200
Response_200(statusCode, text) == Some([statusCode |-> 200, text |-> text])

\* mutant: the index query matches every item that has a payment_intent_id
PaymentIntentIndex_any(payment_intent_id) ==
    ItemsOf({u \in Uuids : table[u].payment_intent_id # None})

\* PaymentIntentIndex: the items with payment_intent_id = payment_intent_id
PaymentIntentIndex(payment_intent_id) ==
    ItemsOf({u \in Uuids : table[u].payment_intent_id = Some(payment_intent_id)})

\* mutant: a failed processing of a verified event is answered with 500
Response_failure_500(statusCode, text) ==
    Some([statusCode |-> IF text \in {"DynamoDB error", "No invoice found"}
                         THEN 500 ELSE statusCode,
          text |-> text])

Response(statusCode, text) == Some([statusCode |-> statusCode, text |-> text])

\* mutant: the status updater sets the record back to RECEIVED
update_invoice_status_reopens(item, update_timestamp) ==
    [item EXCEPT
        !.processing_status = "RECEIVED",
        !.last_updated = Some(update_timestamp),
        !.payment_succeeded_at = Some(update_timestamp)]

\* the item update_invoice_status leaves: an unconditional SET
update_invoice_status(item, update_timestamp) ==
    [item EXCEPT
        !.processing_status = "PAID",
        !.last_updated = Some(update_timestamp),
        !.payment_succeeded_at = Some(update_timestamp)]

\* STRIPE_WEBHOOK_SECRET of the invocation: not set, or the signing secret
WebhookSecrets == {None, Some("whsec")}

\* mutant: without a configured secret the payload is taken as it is
verify_webhook_signature_unchecked(event, webhook_secret) ==
    IF webhook_secret = None THEN Some(event)
    ELSE IF event.signature = "valid" THEN Some(event)
    ELSE None

\* verify_webhook_signature: the event if the signature verifies against the
\* configured secret, None if it does not or no secret is configured
verify_webhook_signature(event, webhook_secret) ==
    IF webhook_secret = None THEN None
    ELSE IF event.signature = "valid" THEN Some(event)
    ELSE None

\* mutant: no event type is ignored
Ignored_none(event_type) == FALSE

\* process_webhook_event: the event types that are ignored
Ignored(event_type) == event_type # "payment_intent.succeeded"

\* lambda_handler up to the index query of update_invoice_status; the store
\* returns the matching items in an order of its own, items[0] is any of them
lambda_handler(event, webhook_secret) ==
    /\ hook.pc = "idle"
    /\ deliveries < MaxDeliveries
    /\ cycles + deliveries < MaxInvocations
    /\ deliveries' = deliveries + 1
    /\ \/ /\ event.signature = "missing"
          /\ hook' = [IdleHook EXCEPT
                 !.response = Response(400, "Missing Stripe-Signature header")]
       \/ /\ event.signature # "missing"
          /\ verify_webhook_signature(event, webhook_secret) = None
          /\ hook' = [IdleHook EXCEPT
                 !.response = Response(400, "Invalid webhook signature")]
       \/ /\ event.signature # "missing"
          /\ verify_webhook_signature(event, webhook_secret) # None
          /\ Ignored(event.type)
          /\ hook' = [IdleHook EXCEPT
                 !.response = Response(200, "ignored")]
       \/ /\ event.signature # "missing"
          /\ verify_webhook_signature(event, webhook_secret) # None
          /\ ~Ignored(event.type)
          /\ \E query_ok \in BOOLEAN :
               LET items == PaymentIntentIndex(event.id)
               IN  IF ~query_ok
                   THEN hook' = [IdleHook EXCEPT
                              !.response = Response(200, "DynamoDB error"),
                              !.store_calls = 1]
                   ELSE IF items = <<>>
                   THEN hook' = [IdleHook EXCEPT
                              !.response = Response(200, "No invoice found"),
                              !.store_calls = 1]
                   ELSE \E i \in DOMAIN items :
                          hook' = [pc |-> "update", invoice |-> Some(items[i]),
                                   response |-> None, store_calls |-> 1]
    /\ UNCHANGED <<table, clock, today, payment_window_days, intents, sched,
                   cycles, extractor>>

\* API Gateway hands a delivered event to the handler
WebhookDelivery ==
    \E event \in WebhookEvents, webhook_secret \in WebhookSecrets :
        lambda_handler(event, webhook_secret)

\* mutant: an update_item that raises ClientError has written the item
update_item_partial(uuid, write_ok, update_timestamp) ==
    [table EXCEPT ![uuid] = update_invoice_status(@, update_timestamp)]

\* the table after update_invoice_status's update_item, which writes the
\* item or raises ClientError and writes nothing
update_item(uuid, write_ok, update_timestamp) ==
    IF write_ok
    THEN [table EXCEPT ![uuid] = update_invoice_status(@, update_timestamp)]
    ELSE table

\* lambda_handler's except branch: an exception escapes the processing of the
\* event (the API Gateway event has no headers, or a verified
\* payment_intent.succeeded event has no data.object)
UnexpectedException ==
    /\ hook.pc = "idle"
    /\ deliveries < MaxDeliveries
    /\ cycles + deliveries < MaxInvocations
    /\ deliveries' = deliveries + 1
    /\ hook' = [IdleHook EXCEPT
                   !.response = Response(500, "Error processing webhook")]
    /\ UNCHANGED <<table, clock, today, payment_window_days, intents, sched,
                   cycles, extractor>>

\* the rest of update_invoice_status: the update_item (which may raise
\* ClientError) and the response
HookUpdate ==
    /\ hook.pc = "update"
    /\ LET uuid == Val(hook.invoice).processed_invoice_uuid
       IN  \E write_ok \in BOOLEAN :
             /\ clock' = IF write_ok THEN clock + 1 ELSE clock
             /\ table' = update_item(uuid, write_ok, clock + 1)
             /\ hook' = [IdleHook EXCEPT
                            !.response =
                                IF write_ok
                                THEN Response(200, "Invoice status updated to PAID")
                                ELSE Response(200, "DynamoDB error"),
                            !.store_calls = 2]
    /\ UNCHANGED <<today, payment_window_days, intents, sched, cycles,
                   deliveries, extractor>>

Next ==
    \/ DayChanges
    \/ NewMessage
    \/ \E s \in Schedulers :
        \/ run_payment_cycle(s)
        \/ _process_single_payment(s)
        \/ SchedulerUpdate(s)
        \/ _process_batch_payments(s)
        \/ CycleReturns(s)
    \/ WebhookDelivery
    \/ HookUpdate

Spec == Init /\ [][Next]_vars

\* one payment cycle at a time, no webhook deliveries
NextCycle ==
    \/ DayChanges
    \/ NewMessage
    \/ run_payment_cycle("s1")
    \/ _process_single_payment("s1")
    \/ SchedulerUpdate("s1")
    \/ _process_batch_payments("s1")
    \/ CycleReturns("s1")

SpecCycle == Init /\ [][NextCycle]_vars

\* one payment cycle at a time, with webhook deliveries
NextReconcile ==
    \/ NewMessage
    \/ run_payment_cycle("s1")
    \/ _process_single_payment("s1")
    \/ SchedulerUpdate("s1")
    \/ _process_batch_payments("s1")
    \/ CycleReturns("s1")
    \/ WebhookDelivery
    \/ HookUpdate

SpecReconcile == Init /\ [][NextReconcile]_vars

\* The status updater alone, on a table it did not write: one item per uuid,
\* RECEIVED, or PAYMENT_INITIATED or PAID with a payment_intent_id that other
\* items may carry as well (the len(items) > 1 branch of
\* update_invoice_status).
InitStore ==
    /\ \E st \in [1..MaxInvoices ->
                    {"RECEIVED", "PAYMENT_INITIATED", "PAID"}] :
          table = [u \in 1..MaxInvoices |->
                      [InvoiceItem(u, u, TRUE, Some(0), Some(45353)) EXCEPT
                          !.processing_status = st[u],
                          !.payment_intent_id =
                              IF st[u] = "RECEIVED" THEN None ELSE Some(1)]]
    /\ clock = 0
    /\ today = 0
    /\ payment_window_days \in Windows
    /\ intents = <<[id |-> 1, amount |-> 45353,
                  metadata |-> [processed_invoice_uuid |-> 1],
                  acknowledged |-> FALSE]>>
    /\ sched = [s \in Schedulers |-> IdleSched]
    /\ cycles = 0
    /\ hook = IdleHook
    /\ deliveries = 0
    /\ extractor = IdleExtractor

NextStore ==
    \/ WebhookDelivery
    \/ HookUpdate

SpecStore == InitStore /\ [][NextStore]_vars

\* the extraction consumer on a queue that delivers at least once, and one
\* payment cycle at a time
NextExtract ==
    \/ NewMessage
    \/ RedeliveredMessage
    \/ run_payment_cycle("s1")
    \/ _process_single_payment("s1")
    \/ SchedulerUpdate("s1")
    \/ _process_batch_payments("s1")
    \/ CycleReturns("s1")

SpecExtract == Init /\ [][NextExtract]_vars

\* the operations of InvoiceDynamoWriter
NextWriter ==
    \/ NewMessage
    \/ WriterUpdate

SpecWriter == Init /\ [][NextWriter]_vars

\* The conversion to minor units on every amount up to MaxAmount hundredths:
\* one record that is due, and one payment cycle at a time.
InitAmount ==
    /\ \E amount \in 1..MaxAmount :
          table = <<InvoiceItem(1, 1, TRUE, Some(0), Some(amount))>>
    /\ clock = 0
    /\ today = 0
    /\ payment_window_days \in Windows
    /\ intents = <<>>
    /\ sched = [s \in Schedulers |-> IdleSched]
    /\ cycles = 0
    /\ hook = IdleHook
    /\ deliveries = 0
    /\ extractor = IdleExtractor

NextAmount ==
    \/ run_payment_cycle("s1")
    \/ _process_single_payment("s1")
    \/ SchedulerUpdate("s1")
    \/ _process_batch_payments("s1")
    \/ CycleReturns("s1")

SpecAmount == InitAmount /\ [][NextAmount]_vars

(***************************************************************************)
(* The lifecycle's legal transitions (spec section 4.1).                   *)
(***************************************************************************)
\* the status updater with every branch of lambda_handler, and one payment
\* cycle at a time
NextHandler ==
    \/ NewMessage
    \/ run_payment_cycle("s1")
    \/ _process_single_payment("s1")
    \/ SchedulerUpdate("s1")
    \/ _process_batch_payments("s1")
    \/ CycleReturns("s1")
    \/ WebhookDelivery
    \/ UnexpectedException
    \/ HookUpdate

SpecHandler == Init /\ [][NextHandler]_vars

\* Payment cycles over days that change, on a table that is not written to
\* meanwhile: every record RECEIVED, with due date and amount.
InitDay ==
    /\ \E due \in [1..MaxInvoices -> Dates] :
          table = [u \in 1..MaxInvoices |->
                      InvoiceItem(u, u, TRUE, Some(due[u]), Some(45353))]
    /\ clock = 0
    /\ today = 0
    /\ payment_window_days \in Windows
    /\ intents = <<>>
    /\ sched = [s \in Schedulers |-> IdleSched]
    /\ cycles = 0
    /\ hook = IdleHook
    /\ deliveries = 0
    /\ extractor = IdleExtractor

NextDay ==
    \/ DayChanges
    \/ run_payment_cycle("s1")
    \/ _process_single_payment("s1")
    \/ SchedulerUpdate("s1")
    \/ _process_batch_payments("s1")
    \/ CycleReturns("s1")

SpecDay == InitDay /\ [][NextDay]_vars

\* one payment cycle at a time, with every way a pass can end
NextCounters ==
    \/ DayChanges
    \/ NewMessage
    \/ run_payment_cycle("s1")
    \/ UrgentPassRaises("s1")
    \/ _process_single_payment("s1")
    \/ SchedulerUpdate("s1")
    \/ _process_batch_payments("s1")
    \/ BatchPassRaises("s1")
    \/ CycleReturns("s1")

SpecCounters == Init /\ [][NextCounters]_vars

\* The gateway's delivery of payment_intent.succeeded, signed with the
\* configured secret, for the intents it accepted: one event at a time, the
\* oldest intent first, again until the answer is 2xx.
Unacknowledged == {i \in DOMAIN intents : ~intents[i].acknowledged}

Pending == CHOOSE i \in Unacknowledged : \A j \in Unacknowledged : i <= j

GatewayDelivers ==
    /\ Unacknowledged # {}
    /\ hook.response = None
    /\ lambda_handler([signature |-> "valid",
                       type |-> "payment_intent.succeeded",
                       id |-> Pending], Some("whsec"))

\* the gateway reads lambda_handler's answer to the delivery
GatewayAcknowledged ==
    /\ hook.pc = "idle"
    /\ hook.response # None
    /\ intents' = [intents EXCEPT ![Pending].acknowledged =
                      (Val(hook.response).statusCode \in 200..299)]
    /\ hook' = IdleHook
    /\ UNCHANGED <<table, clock, today, payment_window_days, sched, cycles,
                   deliveries, extractor>>

NextSettle ==
    \/ NewMessage
    \/ run_payment_cycle("s1")
    \/ _process_single_payment("s1")
    \/ SchedulerUpdate("s1")
    \/ _process_batch_payments("s1")
    \/ CycleReturns("s1")
    \/ GatewayDelivers
    \/ HookUpdate
    \/ GatewayAcknowledged

\* an invocation that has started runs to its end, and the gateway delivers
\* and reads the answer; messages and payment cycles may or may not come
SpecSettle ==
    /\ Init
    /\ [][NextSettle]_vars
    /\ WF_vars(_process_single_payment("s1"))
    /\ WF_vars(SchedulerUpdate("s1"))
    /\ WF_vars(_process_batch_payments("s1"))
    /\ WF_vars(CycleReturns("s1"))
    /\ WF_vars(GatewayDelivers)
    /\ WF_vars(HookUpdate)
    /\ WF_vars(GatewayAcknowledged)

\* the extraction consumer alone, on batches of queue messages
NextBatch ==
    \/ invoice_extractor_lambda_handler
    \/ ProcessRecord
    \/ ExtractorReturns

SpecBatch == Init /\ [][NextBatch]_vars

LegalEdges ==
    {<<"RECEIVED", "PAYMENT_INITIATED">>,
     <<"RECEIVED", "PAYMENT_FAILED">>,
     <<"PAYMENT_INITIATED", "PAID">>}

\* the scheduler s takes its status-update step
SchedulerWrites(s) == sched[s].pc = "update" /\ sched'[s].pc # "update"
\* the status updater takes its update step
HookWrites == hook.pc = "update" /\ hook'.pc # "update"

\* the uuids of the attempts of a cycle, in order
AttemptedUuids(a) == [i \in 1..Len(a) |-> a[i].uuid]

Distinct(q) == \A i, j \in DOMAIN q : q[i] = q[j] => i = j

Last(q) == q[Len(q)]

\* the record the scheduler s is working on
Current(s) == Head(sched[s].queue).processed_invoice_uuid

\* the scheduler s counts the record it is working on as successful
ReportsSuccess(s) ==
    sched'[s].urgent.successful + sched'[s].batch.successful
        = sched[s].urgent.successful + sched[s].batch.successful + 1

(***************************************************************************)
(* C1.  At most one payment is created at the gateway per record id, over  *)
(* any sequence or interleaving of scheduler cycles.                       *)
(***************************************************************************)
C1_OnePaymentPerRecord ==
    \A i, j \in DOMAIN intents :
        intents[i].metadata.processed_invoice_uuid
            = intents[j].metadata.processed_invoice_uuid => i = j

(***************************************************************************)
(* C2.  A status write whose target status is not a legal successor of the *)
(* record's current status leaves every field of the record unmodified:    *)
(* whenever a step modifies an item, the pair (status before, status       *)
(* written) is a legal edge.                                               *)
(***************************************************************************)
C2_IllegalWriteLeavesRecord ==
    [][\A u \in DOMAIN table :
          table'[u] # table[u] =>
              <<table[u].processing_status, table'[u].processing_status>>
                  \in LegalEdges]_vars

(***************************************************************************)
(* C3.  Each change of a record's status follows one of the legal edges.   *)
(***************************************************************************)
C3_StatusFollowsEdges ==
    [][\A u \in DOMAIN table :
          table'[u].processing_status # table[u].processing_status =>
              <<table[u].processing_status, table'[u].processing_status>>
                  \in LegalEdges]_vars

(***************************************************************************)
(* C4.  PAID is terminal: a record that is PAID is PAID in the next state. *)
(***************************************************************************)
C4_PaidIsTerminal ==
    [][\A u \in DOMAIN table :
          table[u].processing_status = "PAID" =>
              table'[u].processing_status = "PAID"]_vars

(***************************************************************************)
(* C5.  Every status write is a compare-and-set on the status the writer   *)
(* read: a write to a record whose status is no longer the one the writer  *)
(* read (the scheduler at its query, the status updater at its index       *)
(* query) changes nothing.                                                 *)
(***************************************************************************)
C5_WriteIsCompareAndSet ==
    [][/\ \A s \in Schedulers :
            (/\ SchedulerWrites(s)
             /\ table[Head(sched[s].queue).processed_invoice_uuid]
                    .processing_status
                  # Head(sched[s].queue).processing_status)
            => table' = table
       /\ (/\ HookWrites
           /\ table[Val(hook.invoice).processed_invoice_uuid].processing_status
                  # Val(hook.invoice).processing_status)
          => table' = table]_vars

(***************************************************************************)
(* C6.  Reconciliation is idempotent: a PAID confirmation applied to a     *)
(* record that is already PAID leaves last_updated and every other field   *)
(* of the record unchanged.                                                *)
(***************************************************************************)
C6_ReconcileTwiceIsOnce ==
    [][(/\ HookWrites
        /\ table[Val(hook.invoice).processed_invoice_uuid].processing_status
               = "PAID")
       => table' = table]_vars

(***************************************************************************)
(* C7.  A record's payment_intent_id, once set, is never overwritten with  *)
(* a different value.                                                      *)
(***************************************************************************)
C7_PaymentReferenceWrittenOnce ==
    [][\A u \in DOMAIN table :
          table[u].payment_intent_id # None =>
              table'[u].payment_intent_id = table[u].payment_intent_id]_vars

(***************************************************************************)
(* C8.  No two distinct records hold the same non-null payment_intent_id.  *)
(***************************************************************************)
C8_PaymentReferenceUnique ==
    \A u, v \in Uuids :
        (u # v /\ table[u].payment_intent_id # None)
            => table[u].payment_intent_id # table[v].payment_intent_id

\* two records hold a payment reference
C8_Witness ==
    \E u, v \in Uuids :
        /\ u # v
        /\ table[u].payment_intent_id # None
        /\ table[v].payment_intent_id # None

(***************************************************************************)
(* C9.  Dedup across passes: in one cycle the batch pass attempts no       *)
(* record due today, and no record is attempted twice: the records         *)
(* attempted so far in the cycle and those still to be attempted are       *)
(* pairwise distinct, for every window length and also when the day        *)
(* changes between the passes.                                             *)
(***************************************************************************)
C9_NoRecordAttemptedTwice ==
    \A s \in Schedulers :
        /\ Distinct(AttemptedUuids(sched[s].attempted)
                        \o UuidsOf(sched[s].queue))
        /\ sched[s].pass = "batch" =>
              \A i \in DOMAIN sched[s].queue :
                  sched[s].queue[i].due_date # Some(sched[s].today)

\* the batch pass runs while a record attempted by the urgent pass is still
\* RECEIVED and due today, so the batch query returns it
C9_Witness ==
    \E s \in Schedulers :
        /\ sched[s].pass = "batch"
        /\ \E i \in DOMAIN sched[s].attempted :
              LET a == sched[s].attempted[i]
              IN  /\ a.pass = "urgent"
                  /\ a.gateway = "ok"
                  /\ table[a.uuid].processing_status = "RECEIVED"
                  /\ table[a.uuid].due_date = Some(sched[s].today)

(***************************************************************************)
(* C10.  Isolation: when a cycle ends in which exactly one record's gateway *)
(* call failed (every selected record had an amount and no store write     *)
(* failed), every selected record was attempted, the records whose gateway *)
(* call succeeded are PAYMENT_INITIATED, and the results report exactly    *)
(* one failure.                                                            *)
(***************************************************************************)
OneGatewayFailure(s) ==
    LET a == sched[s].attempted
    IN  /\ Cardinality({i \in DOMAIN a : a[i].gateway = "fail"}) = 1
        /\ \A i \in DOMAIN a : a[i].gateway # "none" /\ a[i].write = "ok"

C10_Isolation ==
    \A s \in Schedulers :
        (Returning(s) /\ OneGatewayFailure(s)) =>
            LET a == sched[s].attempted
                r == Results(s)
            IN  /\ AttemptedUuids(a) = sched[s].selected
                /\ \A i \in DOMAIN a :
                      table[a[i].uuid].processing_status =
                          IF a[i].gateway = "ok" THEN "PAYMENT_INITIATED"
                                                 ELSE "PAYMENT_FAILED"
                /\ r.summary.total_failed = 1
                /\ r.summary.total_processed = Len(sched[s].selected)
                /\ r.summary.total_successful = Len(sched[s].selected) - 1
                /\ Len(r.urgent_payments.errors)
                       + Len(r.batch_payments.errors) = 1

\* a cycle over two records ends, one gateway call having failed
C10_Witness ==
    \E s \in Schedulers :
        /\ Returning(s)
        /\ OneGatewayFailure(s)
        /\ Len(sched[s].attempted) >= 2

(***************************************************************************)
(* C11.  Whenever the gateway accepted the payment of a record and the     *)
(* scheduler counts the record as successful, the stored record is         *)
(* PAYMENT_INITIATED and its payment_intent_id is the one the gateway      *)
(* assigned, also when the store write can fail.                           *)
(***************************************************************************)
C11_ReportedSuccessIsStored ==
    [][\A s \in Schedulers :
          (/\ SchedulerWrites(s)
           /\ sched[s].payment_result.success
           /\ ReportsSuccess(s))
          => /\ table'[Current(s)].processing_status = "PAYMENT_INITIATED"
             /\ table'[Current(s)].payment_intent_id
                    = sched[s].payment_result.payment_intent_id]_vars

C13_MissingAmountIsRecorded ==
    [][\A s \in Schedulers :
          (/\ sched[s].pc = "loop"
           /\ sched[s].queue # <<>>
           /\ Head(sched[s].queue).total_amount = None
           /\ sched'[s].attempted # sched[s].attempted)
          => table'[Current(s)].processing_status = "PAYMENT_FAILED"]_vars

(***************************************************************************)
(* C14.  When a cycle ends, every record for which it issued a gateway     *)
(* call is PAYMENT_INITIATED or PAYMENT_FAILED, never still RECEIVED.      *)
(***************************************************************************)
C14_GatewayCallIsResolved ==
    \A s \in Schedulers :
        Returning(s) =>
            \A i \in DOMAIN sched[s].attempted :
                sched[s].attempted[i].gateway # "none"
                => table[sched[s].attempted[i].uuid].processing_status
                       \in {"PAYMENT_INITIATED", "PAYMENT_FAILED"}

(***************************************************************************)
(* C15.  When both selection queries of a cycle failed, what the scheduler *)
(* Lambda returns differs from what it returns for a cycle whose queries   *)
(* succeeded and found no eligible record.                                 *)
(***************************************************************************)
C15_QueryFailureIsReported ==
    \A s \in Schedulers :
        (Returning(s) /\ sched[s].queries_failed)
        => payment_scheduler_lambda_handler(Results(s))
               # payment_scheduler_lambda_handler(EmptyResults)

(***************************************************************************)
(* Webhook deliveries.                                                     *)
(***************************************************************************)
\* the delivery is signed with the secret the invocation is configured with
Authentic(event, webhook_secret) ==
    event.signature = "valid" /\ webhook_secret # None

\* no item carries the payment intent of the event
NoMatch(event) ==
    \A u \in Uuids : table[u].payment_intent_id # Some(event.id)

(***************************************************************************)
(* C16.  A delivery whose signature header is missing or does not verify   *)
(* against the configured secret, also when no secret is configured, is    *)
(* rejected with status 400 before any store call: the invocation makes no *)
(* query and no update, and the table is unchanged.                        *)
(***************************************************************************)
C16_UnverifiedIsRejected ==
    [][\A event \in WebhookEvents, webhook_secret \in WebhookSecrets :
          (/\ ~Authentic(event, webhook_secret)
           /\ lambda_handler(event, webhook_secret))
          => /\ table' = table
             /\ hook'.pc = "idle"
             /\ hook'.store_calls = 0
             /\ Val(hook'.response).statusCode = 400]_vars

\* an unverifiable delivery has been rejected while a record with a payment
\* reference waits for its confirmation
C16_Witness ==
    /\ hook.response = Response(400, "Invalid webhook signature")
    /\ \E u \in Uuids :
          /\ table[u].processing_status = "PAYMENT_INITIATED"
          /\ table[u].payment_intent_id # None

(***************************************************************************)
(* C17.  The response to an unverified delivery differs in its status code *)
(* from the response to a verified payment_intent.succeeded delivery whose *)
(* payment intent matches no record: the former is never 200, the latter   *)
(* is 200.                                                                 *)
(***************************************************************************)
C17_RejectionDiffersFromNoMatch ==
    [][\A event \in WebhookEvents, webhook_secret \in WebhookSecrets :
          lambda_handler(event, webhook_secret)
          => /\ ~Authentic(event, webhook_secret)
                => Val(hook'.response).statusCode # 200
             /\ (/\ Authentic(event, webhook_secret)
                 /\ event.type = "payment_intent.succeeded"
                 /\ NoMatch(event))
                => Val(hook'.response).statusCode = 200]_vars

\* a second delivery is rejected for its missing signature header
C17_Witness ==
    /\ deliveries = 2
    /\ hook.response = Response(400, "Missing Stripe-Signature header")

(***************************************************************************)
(* C18.  A verified payment_intent.succeeded delivery whose payment intent *)
(* matches no record changes no record, and is answered with status 200    *)
(* and the outcome "No invoice found" (a store error if the query itself   *)
(* failed).                                                                *)
(***************************************************************************)
C18_NoMatchIsNoOp ==
    [][\A event \in WebhookEvents, webhook_secret \in WebhookSecrets :
          (/\ Authentic(event, webhook_secret)
           /\ event.type = "payment_intent.succeeded"
           /\ NoMatch(event)
           /\ lambda_handler(event, webhook_secret))
          => /\ table' = table
             /\ hook'.pc = "idle"
             /\ \/ hook'.response = Response(200, "No invoice found")
                \/ hook'.response = Response(200, "DynamoDB error")]_vars

\* a confirmation that matches no record has been answered while other
\* records carry payment references
C18_Witness ==
    /\ hook.response = Response(200, "No invoice found")
    /\ \E u \in Uuids : table[u].payment_intent_id # None

(***************************************************************************)
(* C19.  When several records match a confirmation's payment intent, the   *)
(* record the status updater changes is the one with the lowest uuid,      *)
(* whatever order the store returns the matches in.                        *)
(***************************************************************************)
C19_LowestMatchIsUpdated ==
    [][HookWrites =>
          \A u \in Uuids :
              table'[u] # table[u] =>
                  \A v \in Uuids :
                      table[v].payment_intent_id
                          = Val(hook.invoice).payment_intent_id
                      => u <= v]_vars

(***************************************************************************)
(* C20.  A verified delivery of an event type other than                   *)
(* payment_intent.succeeded changes no record, makes no store call and is  *)
(* answered with status 200 as ignored.                                    *)
(***************************************************************************)
C20_OtherEventsAreIgnored ==
    [][\A event \in WebhookEvents, webhook_secret \in WebhookSecrets :
          (/\ Authentic(event, webhook_secret)
           /\ event.type # "payment_intent.succeeded"
           /\ lambda_handler(event, webhook_secret))
          => /\ table' = table
             /\ hook' = [IdleHook EXCEPT
                            !.response = Response(200, "ignored")]]_vars

\* an event of another type has been ignored while a record waits for its
\* confirmation
C20_Witness ==
    /\ hook.response = Response(200, "ignored")
    /\ \E u \in Uuids :
          /\ table[u].processing_status = "PAYMENT_INITIATED"
          /\ table[u].payment_intent_id # None

\* C22: exactly one invoice record exists per extracted document, also when
\* the queue message of the document is delivered more than once: no two
\* records of successful extractions carry the same document key
C22_OneRecordPerDocument ==
    \A u, v \in DOMAIN table :
        (/\ table[u].s3_original_key = table[v].s3_original_key
         /\ table[u].extraction_successful
         /\ table[v].extraction_successful) => u = v

\* C23: a failed extraction still leaves a record, RECEIVED and without
\* due_date and total_amount, that no pass of any cycle selects and for which
\* no payment is attempted
C23_FailedExtractionIsNeverPaid ==
    \A u \in DOMAIN table :
        ~table[u].extraction_successful =>
            /\ table[u].processing_status = "RECEIVED"
            /\ table[u].due_date = None
            /\ table[u].total_amount = None
            /\ \A s \in Schedulers :
                  /\ \A i \in DOMAIN sched[s].selected : sched[s].selected[i] # u
                  /\ \A i \in DOMAIN sched[s].queue :
                        sched[s].queue[i].processed_invoice_uuid # u
                  /\ \A i \in DOMAIN sched[s].attempted :
                        sched[s].attempted[i].uuid # u
            /\ \A i \in DOMAIN intents :
                  intents[i].metadata.processed_invoice_uuid # u

\* a cycle has paid for another record while the record of a failed
\* extraction was in the table
C23_Witness ==
    \E u, v \in DOMAIN table :
        /\ ~table[u].extraction_successful
        /\ u < v
        /\ table[v].processing_status = "PAYMENT_INITIATED"
        /\ Returning("s1")

\* C29: the amount given to the gateway in cents is the exact decimal amount
\* of the record times 100, for every amount text with two decimals
C29_ExactMinorUnits ==
    \A i \in DOMAIN intents :
        intents[i].amount =
            Val(table[intents[i].metadata.processed_invoice_uuid].total_amount)

\* C21: a record can go from RECEIVED through PAYMENT_INITIATED to PAID, and
\* no record reaches PAID without having been PAYMENT_INITIATED: a
\* payment_intent_id is stored only by a write that sets PAYMENT_INITIATED,
\* and a record that becomes PAID carries one
C21_PaidPassesThroughInitiated ==
    [][\A u \in DOMAIN table :
          /\ table'[u].payment_intent_id # table[u].payment_intent_id
                => table'[u].processing_status = "PAYMENT_INITIATED"
          /\ (table'[u].processing_status = "PAID"
              /\ table[u].processing_status # "PAID")
                => table[u].payment_intent_id # None]_vars

\* the round trip of one record: one cycle, one intent, one confirmation
C21_Witness ==
    /\ Len(table) = 1
    /\ table[1].processing_status = "PAID"
    /\ table[1].payment_succeeded_at # None
    /\ Len(intents) = 1
    /\ cycles = 1
    /\ deliveries = 1

\* C24: records are created RECEIVED only; the scheduler writes only
\* PAYMENT_INITIATED or PAYMENT_FAILED, and only to the record it selected as
\* RECEIVED; the status updater writes only PAID, to the record it found; no
\* step removes a record or changes one otherwise
C24_WritesByOwner ==
    [][/\ Len(table') >= Len(table)
       /\ \A u \in DOMAIN table' \ DOMAIN table :
             table'[u].processing_status = "RECEIVED"
       /\ \A u \in DOMAIN table :
             table'[u] # table[u] =>
                \/ \E s \in Schedulers :
                      /\ SchedulerWrites(s)
                      /\ u = Current(s)
                      /\ Head(sched[s].queue).processing_status = "RECEIVED"
                      /\ table'[u].processing_status
                            \in {"PAYMENT_INITIATED", "PAYMENT_FAILED"}
                \/ /\ HookWrites
                   /\ u = Val(hook.invoice).processed_invoice_uuid
                   /\ table'[u].processing_status = "PAID"]_vars

\* the scheduler has written PAYMENT_FAILED to one record and the status
\* updater PAID to another
C24_Witness ==
    \E u, v \in DOMAIN table :
        /\ table[u].processing_status = "PAID"
        /\ table[v].processing_status = "PAYMENT_FAILED"

\* the fields of a record that no update may change
ImmutableFields(item) ==
    <<item.processed_invoice_uuid, item.s3_original_key,
      item.extraction_successful, item.due_date, item.total_amount>>

\* C25: the id, the due date, the amount and the source reference of a
\* record are left unchanged by every update of the scheduler and of the
\* status updater
C25_UpdatesKeepImmutableFields ==
    [][\A u \in DOMAIN table :
          ImmutableFields(table'[u]) = ImmutableFields(table[u])]_vars

\* a record that both the scheduler and the status updater have updated
C25_Witness ==
    \E u \in DOMAIN table :
        /\ table[u].processing_status = "PAID"
        /\ table[u].payment_intent_id # None
        /\ table[u].payment_succeeded_at = table[u].last_updated
        /\ table[u].due_date # None
        /\ table[u].total_amount # None

\* C26: last_updated is written in the same update as every change of
\* status, by every operation that writes the status
C26_StatusChangeSetsLastUpdated ==
    [][\A u \in DOMAIN table :
          table'[u].processing_status # table[u].processing_status
              => table'[u].last_updated # table[u].last_updated]_vars

\* C27: a record that carries an error_message has status PAYMENT_FAILED
C27_FailureReasonOnlyOnFailed ==
    \A u \in DOMAIN table :
        table[u].error_message # None
            => table[u].processing_status = "PAYMENT_FAILED"

\* C28: a record carries a payment_intent_id exactly if its status is
\* PAYMENT_INITIATED or PAID
C28_PaymentReferenceIffInitiated ==
    \A u \in DOMAIN table :
        table[u].payment_intent_id # None
            <=> table[u].processing_status \in {"PAYMENT_INITIATED", "PAID"}

\* the records that are RECEIVED and due today
DueToday ==
    {u \in DOMAIN table : /\ table[u].processing_status = "RECEIVED"
                          /\ table[u].due_date = Some(today)}

\* C30: the urgent pass attempts exactly the records that are RECEIVED and due
\* today when it queries: its query selects exactly these records, and when
\* the pass ends it has attempted exactly the records it selected
C30_UrgentPassAttemptsDueToday ==
    [][\A s \in Schedulers :
          /\ (sched[s].pc = "idle" /\ sched'[s].pc = "loop")
                => {sched'[s].selected[i] : i \in DOMAIN sched'[s].selected}
                       = DueToday
          /\ (sched[s].pass = "urgent" /\ sched'[s].pass = "batch")
                => AttemptedUuids(sched[s].attempted) = sched[s].selected]_vars

\* the records that are RECEIVED and due after today, within the window
DueInWindow ==
    {u \in DOMAIN table : /\ table[u].processing_status = "RECEIVED"
                          /\ table[u].due_date # None
                          /\ today < Val(table[u].due_date)
                          /\ Val(table[u].due_date) <= today + payment_window_days}

\* C31: the batch pass attempts exactly the records that are RECEIVED and due
\* after today and no later than today + payment_window_days when it queries:
\* the pass keeps exactly these records of its query, and when the cycle
\* returns the batch pass has attempted exactly the records it kept
C31_BatchPassAttemptsDueInWindow ==
    [][\A s \in Schedulers :
          /\ (sched[s].pass = "urgent" /\ sched'[s].pass = "batch")
                => {sched'[s].queue[i].processed_invoice_uuid :
                        i \in DOMAIN sched'[s].queue} = DueInWindow
          /\ Returning(s)
                => AttemptedUuids(sched[s].attempted) = sched[s].selected]_vars

\* the tallies of the pass a cycle is in
PassTally(st) == IF st.pass = "urgent" THEN st.urgent ELSE st.batch

\* C35: for a selected record without total_amount no payment intent is
\* created and no record is written; the record is counted once as processed
\* and once as failed in its pass, with an error that names it; the loop goes
\* on with the next record, and the cycle returns having attempted every
\* record it selected
C35_MissingAmountIsCountedAndSkipped ==
    [][\A s \in Schedulers :
          /\ (/\ sched[s].pc = "loop"
              /\ sched[s].queue # <<>>
              /\ Head(sched[s].queue).total_amount = None
              /\ sched'[s] # sched[s])
                => /\ intents' = intents
                   /\ table' = table
                   /\ sched'[s].pc = "loop"
                   /\ sched'[s].pass = sched[s].pass
                   /\ sched'[s].queue = Tail(sched[s].queue)
                   /\ PassTally(sched'[s]).processed
                         = PassTally(sched[s]).processed + 1
                   /\ PassTally(sched'[s]).failed
                         = PassTally(sched[s]).failed + 1
                   /\ PassTally(sched'[s]).successful
                         = PassTally(sched[s]).successful
                   /\ Len(PassTally(sched'[s]).errors)
                         = Len(PassTally(sched[s]).errors) + 1
                   /\ Last(PassTally(sched'[s]).errors).uuid = Current(s)
          /\ Returning(s)
                => AttemptedUuids(sched[s].attempted) = sched[s].selected]_vars

\* a pass went on to pay for a record after one without total_amount
C35_Witness ==
    \E i, j \in DOMAIN sched["s1"].attempted :
        /\ i < j
        /\ sched["s1"].attempted[i].gateway = "none"
        /\ sched["s1"].attempted[j].gateway = "ok"
        /\ sched["s1"].attempted[i].pass = sched["s1"].attempted[j].pass

\* C39: the create call returns a result in every case: success with a
\* payment_intent_id and no error_message, or failure with an error_message
\* and no payment_intent_id; the intent it creates carries the record's id
\* in its metadata
C39_PaymentResultShape ==
    [][\A s \in Schedulers :
          (sched[s].pc = "loop" /\ sched'[s].pc = "update")
             => LET pr == sched'[s].payment_result
                IN  /\ pr.success \in BOOLEAN
                    /\ pr.success <=> (pr.payment_intent_id # None
                                       /\ pr.error_message = None)
                    /\ ~pr.success <=> (pr.payment_intent_id = None
                                        /\ pr.error_message # None)
                    /\ pr.success
                          => /\ Len(intents') = Len(intents) + 1
                             /\ Last(intents').metadata.processed_invoice_uuid
                                   = Current(s)
                             /\ pr.payment_intent_id = Some(Last(intents').id)
                    /\ ~pr.success => intents' = intents]_vars

\* one create call has succeeded and a later one of the cycle has failed
C39_Witness ==
    \E i, j \in DOMAIN sched["s1"].attempted :
        /\ i < j
        /\ sched["s1"].attempted[i].gateway = "ok"
        /\ sched["s1"].attempted[j].gateway = "fail"

\* the status updater takes a step of a delivery
HandlerStep == deliveries' # deliveries \/ HookWrites

\* C36: a store failure during the reconciliation of a confirmation changes
\* no record and is the outcome of that delivery only: the handler has
\* answered and takes the next delivery
C36_StoreFailureIsIsolated ==
    [][(/\ HandlerStep
        /\ hook'.response # None
        /\ Val(hook'.response).text = "DynamoDB error")
          => /\ table' = table
             /\ hook'.pc = "idle"
             /\ hook'.invoice = None]_vars

\* the update_item of a delivery has failed and the record is as it was
C36_Witness ==
    /\ hook.response # None
    /\ Val(hook.response).text = "DynamoDB error"
    /\ hook.store_calls = 2
    /\ \E u \in DOMAIN table :
          /\ table[u].processing_status = "PAYMENT_INITIATED"
          /\ table[u].payment_succeeded_at = None

\* C37: the webhook handler answers every delivery: 400 when the signature is
\* missing or does not verify, 200 for every verified event (status updated,
\* event ignored, no record found, store error), and 500 only when an
\* exception escapes the processing
C37_StatusCodeByOutcome ==
    [][/\ \A event \in WebhookEvents, webhook_secret \in WebhookSecrets :
             lambda_handler(event, webhook_secret)
                => \/ hook'.pc = "update"
                   \/ /\ hook'.response # None
                      /\ Val(hook'.response).statusCode =
                            IF Authentic(event, webhook_secret)
                            THEN 200 ELSE 400
       /\ HookWrites
             => /\ hook'.response # None
                /\ Val(hook'.response).statusCode = 200
       /\ (/\ HandlerStep
           /\ hook'.response # None
           /\ Val(hook'.response).statusCode = 500)
             => UnexpectedException]_vars

\* the handler has answered 200 for a store error
C37_Witness ==
    /\ hook.response = Some([statusCode |-> 200, text |-> "DynamoDB error"])
    /\ hook.store_calls = 1

\* C32: every record that is RECEIVED and due within the window of the day
\* the cycle started on is attempted exactly once in the cycle, also when the
\* day changes between the passes: when the batch pass starts, no record is
\* selected twice, and a record of that window that the urgent pass (whose
\* query was answered) did not select is not excluded by the batch pass as
\* due today
C32_NoRecordSkippedByBothPasses ==
    [][\A s \in Schedulers :
          (/\ sched[s].pass = "urgent"
           /\ sched'[s].pass = "batch"
           /\ ~sched[s].queries_failed)
             => /\ Distinct(sched'[s].selected)
                /\ \A u \in DOMAIN table :
                      (/\ table[u].processing_status = "RECEIVED"
                       /\ table[u].due_date # None
                       /\ sched[s].today <= Val(table[u].due_date)
                       /\ Val(table[u].due_date)
                             <= sched[s].today + payment_window_days
                       /\ \A i \in DOMAIN sched[s].selected :
                             sched[s].selected[i] # u)
                         => table[u].due_date # Some(today)]_vars

\* C34: in the results of every cycle, each pass has processed = successful +
\* failed and as many errors as failed records, and the summary's totals are
\* the sums of the two passes' counts
C34_CountsAddUp ==
    \A s \in Schedulers :
        Returning(s) =>
            LET results == Results(s)
                urgent == results.urgent_payments
                batch == results.batch_payments
            IN  /\ urgent.processed = urgent.successful + urgent.failed
                /\ Len(urgent.errors) = urgent.failed
                /\ batch.processed = batch.successful + batch.failed
                /\ Len(batch.errors) = batch.failed
                /\ results.summary.total_processed
                      = urgent.processed + batch.processed
                /\ results.summary.total_successful
                      = urgent.successful + batch.successful
                /\ results.summary.total_failed
                      = urgent.failed + batch.failed

\* C33: every record whose payment the gateway accepted eventually becomes
\* PAID, the gateway delivering payment_intent.succeeded until it has a 2xx
\* answer: once the confirmation of the intent a record refers to has been
\* acknowledged, the record is PAID or becomes PAID
C33_AcceptedPaymentIsEventuallyPaid ==
    \A u \in 1..MaxInvoices :
        []((/\ u \in DOMAIN table
            /\ table[u].payment_intent_id # None
            /\ Val(table[u].payment_intent_id) \in DOMAIN intents
            /\ intents[Val(table[u].payment_intent_id)].acknowledged)
              => <>(u \in DOMAIN table /\ table[u].processing_status = "PAID"))

\* C38: the extraction consumer creates a record only, and then one record,
\* for a message classified INVOICE that carries bucket and key; every message
\* is counted in processed_count, skipped, failed or written;
\* extracted_count never exceeds processed_count; after a message that failed
\* the loop goes on, and the handler returns when every message of the batch
\* has been counted
C38_EveryMessageIsCounted ==
    [][/\ (extractor.pc = "loop" /\ extractor'.pc = "loop"
              /\ extractor' # extractor)
          => LET message_body == extractor.records[extractor.i]
             IN  /\ table' # table
                       => /\ message_body.classification = "INVOICE"
                          /\ message_body.bucket
                          /\ message_body.key
                          /\ Len(table') = Len(table) + 1
                          /\ extractor'.extracted_count
                                = extractor.extracted_count + 1
                 /\ table' = table
                       => extractor'.extracted_count = extractor.extracted_count
                 /\ extractor'.processed_count = extractor.processed_count + 1
                 /\ extractor'.extracted_count <= extractor'.processed_count
                 /\ extractor'.i = extractor.i + 1
                 /\ extractor'.records = extractor.records
       /\ (extractor.pc = "loop" /\ extractor'.pc = "idle")
          => /\ extractor.processed_count = Len(extractor.records)
             /\ Val(extractor'.response).statusCode = 200
             /\ Val(extractor'.response).processed_count
                   = Len(extractor.records)
             /\ Val(extractor'.response).extracted_count
                   <= Val(extractor'.response).processed_count
             /\ table' = table]_vars

\* a batch of two messages has been handled: one created a record, the other
\* (skipped or failed) did not
C38_Witness ==
    /\ extractor.pc = "idle"
    /\ extractor.response # None
    /\ Val(extractor.response).processed_count = 2
    /\ Val(extractor.response).extracted_count = 1
    /\ Len(table) = 1

=============================================================================
